---- MODULE Spec2Model ----
(***************************************************************************)
(* State-machine model of the Agenda component (AgendaView) of             *)
(* react-native-calendars, src/src/agendaCalendar/index.js: the knob       *)
(* gesture state machine, the logical scroll-pad position, day selection,  *)
(* markings, the reservation loading debounce and the component's          *)
(* lifecycle.  One action per handler; a handler runs to completion (the   *)
(* UI thread is single threaded and React batches the setState calls of a  *)
(* handler).                                                               *)
(***************************************************************************)
EXTENDS Integers, Sequences, FiniteSets, TLC

(***************************************************************************)
(* Program constants (style module).                                       *)
(***************************************************************************)
HEADER_HEIGHT == 108 + 30
KNOB_HEIGHT == 24 + 30

\* onSnapAfterDrag projects the position 250 ms ahead.
ProjectionMs == 250
\* onVisibleMonthsChange waits 200 ms before it asks for the month's items.
DebounceMs == 200

(***************************************************************************)
(* Bounds of the model.                                                    *)
(***************************************************************************)
\* the clock advances in steps of TickMs, at most MaxTicks times
MaxTicks == 2
\* pending "calendarIsReady" timeouts (one per scroll pad layout event)
MaxReadyTimeouts == 1

\* the same, where only the loading of the visible month runs
MaxLoadTicks == 4

\* granularity of the clock
TickMs == DebounceMs \div 2
MaxTime == MaxTicks * TickMs
MaxLoadTime == MaxLoadTicks * TickMs

(***************************************************************************)
(* Values.                                                                 *)
(***************************************************************************)
\* An optional value (a prop that may be undefined): <<>> or <<v>>.
Undefined == <<>>
Some(v) == <<v>>
IsDefined(o) == Len(o) = 1
ValueOf(o) == o[1]

Day(y, m, d) == [year |-> y, month |-> m, day |-> d]

\* dateutils.sameMonth(a, b)
SameMonth(a, b) == a.year = b.year /\ a.month = b.month

\* decimal digits of n, zero padded to width w (XDate's yyyy, MM, dd)
Digit(n) == CASE n = 0 -> "0" [] n = 1 -> "1" [] n = 2 -> "2" [] n = 3 -> "3"
              [] n = 4 -> "4" [] n = 5 -> "5" [] n = 6 -> "6" [] n = 7 -> "7"
              [] n = 8 -> "8" [] n = 9 -> "9"

RECURSIVE Padded(_, _)
Padded(n, w) == IF w = 0 THEN <<>> ELSE Append(Padded(n \div 10, w - 1), Digit(n % 10))

\* XDate.toString('yyyy-MM-dd'): the key of a day in items and markedDates,
\* as the sequence of its characters
DateKey(d) == Padded(d.year, 4) \o <<"-">> \o Padded(d.month, 2) \o <<"-">> \o Padded(d.day, 2)

\* a call the component makes on a collaborator or on a callback prop
Call(fn, arg) == [fn |-> fn, arg |-> arg]

VARIABLES
  viewHeight,          \* this.viewHeight
  headerState,         \* this.headerState
  scrollPadY,          \* this.state.scrollPadY
  calendarIsReady,     \* this.state.calendarIsReady
  calendarScrollable,  \* this.state.calendarScrollable
  firstResevationLoad, \* this.state.firstResevationLoad
  selectedDay,         \* this.state.selectedDay
  topDay,              \* this.state.topDay
  knobTracker,         \* this.knobTracker: the retained samples
  scrollTimeout,       \* this.scrollTimeout: the id of the debounce timer set last, if any
  timers,              \* the pending timers of onVisibleMonthsChange's setTimeout
  readyTimeouts,       \* pending setTimeout(..., 0) callbacks of onScrollPadLayout
  isMounted,           \* this._isMounted
  lifecycle,           \* "constructed", "mounted" or "unmounted"
  props,               \* this.props
  markings,            \* the markedDates render hands to the calendar
  dragging,            \* the scroll pad is between onScrollBeginDrag and onScrollEndDrag
  optimisticPending,   \* a chooseDay(_, true) happened and no list day change since
  now,                 \* the clock, in ms
  event,               \* the handler that ran last, with the values it read
  calls                \* the calls that handler made, in order

vars == <<viewHeight, headerState, scrollPadY, calendarIsReady, calendarScrollable,
          firstResevationLoad, selectedDay, topDay, knobTracker, scrollTimeout, timers,
          readyTimeouts, isMounted, lifecycle, props, markings, dragging,
          optimisticPending, now, event, calls>>

(***************************************************************************)
(* VelocityTracker (../input): samples are (timestamp, position) pairs; a  *)
(* fixed window of the most recent ones is retained.  A speed is a         *)
(* rational number of position units per ms, [num, den] with den > 0.      *)
(***************************************************************************)
TrackerWindow == 2

Rational(n, d) == [num |-> n, den |-> d]

\* knobTracker.reset()
TrackerReset == <<>>

\* knobTracker.add(position), at time t
TrackerAdd(tracker, position, t) ==
  LET all == Append(tracker, [t |-> t, p |-> position])
  IN  IF Len(all) > TrackerWindow THEN Tail(all) ELSE all

\* knobTracker.estimateSpeed()
EstimateSpeed(tracker) ==
  IF Len(tracker) < 2 THEN Rational(0, 1)
  ELSE LET first == tracker[1]
           last == tracker[Len(tracker)]
       IN  IF last.t - first.t <= 0 THEN Rational(0, 1)
           ELSE Rational(last.p - first.p, last.t - first.t)

(***************************************************************************)
(* Geometry.                                                               *)
(***************************************************************************)
Max(a, b) == IF a >= b THEN a ELSE b

\* mutant of InitialScrollPadPosition: not clamped at 0
InitialScrollPadPosition_NotClamped == viewHeight - HEADER_HEIGHT

\* initialScrollPadPosition()
InitialScrollPadPosition == Max(0, viewHeight - HEADER_HEIGHT)

\* twice calendarOffset() (viewHeight / 2 need not be an integer)
CalendarOffset2 == IF props.horizontal THEN 0 ELSE 2 * 90 - viewHeight

(***************************************************************************)
(* The calls of the helpers.                                               *)
(***************************************************************************)
\* xdateToData(day)
XdateToData(d) == [year |-> d.year, month |-> d.month, day |-> d.day, dateString |-> DateKey(d)]

\* setScrollPadPosition(y, animated): the call on the scroll pad
ScrollTo(y, animated) == Call("scrollPad.scrollTo", [x |-> 0, y |-> y, animated |-> animated])

\* this.calendar.scrollToDay(day, offset, animated), offset given twice over
ScrollToDay(d, offset2, animated) ==
  Call("calendar.scrollToDay", [day |-> d, offset2 |-> offset2, animated |-> animated])

\* this.knob.setNativeProps({style: {opacity}}), opacity in percent
KnobOpacity(pct) == Call("knob.setNativeProps", [opacity |-> pct])

\* mutant of EnableCalendarScrollingCalls: the callback is not notified
EnableCalendarScrollingCalls_Silent ==
  <<ScrollToDay(selectedDay, CalendarOffset2 + 2, TRUE)>>

\* enableCalendarScrolling(): its calls (it also sets calendarScrollable)
EnableCalendarScrollingCalls ==
  (IF props.onCalendarToggled THEN <<Call("onCalendarToggled", TRUE)>> ELSE <<>>)
  \o <<ScrollToDay(selectedDay, CalendarOffset2 + 2, TRUE)>>

\* loadReservations(p): does it start the first load?
LoadReservationsFires(p) ==
  /\ \/ ~IsDefined(p.items)
     \/ Cardinality(DOMAIN ValueOf(p.items)) = 0
  /\ ~firstResevationLoad

\* loadReservations(p): the calls of the setState callback
LoadReservationsCalls(p, thisProps) ==
  IF LoadReservationsFires(p) /\ thisProps.loadItemsForMonth
  THEN <<Call("loadItemsForMonth", XdateToData(selectedDay))>>
  ELSE <<>>

(***************************************************************************)
(* Gesture handlers of the scroll pad.                                     *)
(***************************************************************************)
\* mutants of TouchEndSnapY: the comparison inverted, not strict, and dropped
TouchEndSnapY_AlwaysCollapses(currentY, maxY) == maxY
TouchEndSnapY_Inverted(currentY, maxY) == IF 2 * currentY > maxY THEN maxY ELSE 0
TouchEndSnapY_NotStrict(currentY, maxY) == IF 2 * currentY >= maxY THEN 0 ELSE maxY

\* onTouchEnd: const snapY = currentY > maxY / 2 ? 0 : maxY
TouchEndSnapY(currentY, maxY) == IF 2 * currentY > maxY THEN 0 ELSE maxY

\* mutants of TouchEndSnaps: the guard dropped, and the guard passing a drag
TouchEndSnaps_Always(state) == TRUE
TouchEndSnaps_UnlessIdle(state) == state # "idle"

\* onTouchEnd: the body runs only when the header was touched
TouchEndSnaps(state) == state = "touched"

\* onTouchEnd: its calls
TouchEndCalls ==
  <<KnobOpacity(100)>>
  \o (IF TouchEndSnaps(headerState)
      THEN <<ScrollTo(TouchEndSnapY(scrollPadY, InitialScrollPadPosition), TRUE)>>
           \o EnableCalendarScrollingCalls
      ELSE <<>>)

\* onSnapAfterDrag: projectedY > maxY / 2, with projectedY = currentY + speed * 250
ProjectedAbove(currentY, speed, maxY) ==
  2 * (currentY * speed.den + speed.num * ProjectionMs) > maxY * speed.den

\* mutant of SnapAfterDragY: the raw position decides, the speed is ignored
SnapAfterDragY_RawPosition(currentY, speed, maxY) == IF 2 * currentY > maxY THEN maxY ELSE 0

\* onSnapAfterDrag: const snapY = (projectedY > maxY / 2) ? maxY : 0
SnapAfterDragY(currentY, speed, maxY) ==
  IF ProjectedAbove(currentY, speed, maxY) THEN maxY ELSE 0

\* onSnapAfterDrag: if (snapY === 0) this.enableCalendarScrolling()
SnapEnablesScrolling(snapY) == snapY = 0

\* mutant of HeaderStateAfterTouchEnd: the state is not reset
HeaderStateAfterTouchEnd_Kept == headerState

\* onTouchEnd: this.headerState = 'idle'
HeaderStateAfterTouchEnd == "idle"

OnTouchStart ==
  /\ lifecycle = "mounted"
  /\ headerState' = "touched"
  /\ calls' = <<KnobOpacity(50)>>
  /\ event' = [op |-> "onTouchStart", headerState |-> headerState]
  /\ UNCHANGED <<viewHeight, scrollPadY, calendarIsReady, calendarScrollable,
                 firstResevationLoad, selectedDay, topDay, knobTracker, scrollTimeout, timers,
                 readyTimeouts, isMounted, lifecycle, props, markings, dragging,
                 optimisticPending, now>>

OnTouchEnd ==
  /\ lifecycle = "mounted"
  /\ scrollPadY' = IF TouchEndSnaps(headerState)
                   THEN TouchEndSnapY(scrollPadY, InitialScrollPadPosition)
                   ELSE scrollPadY
  /\ calendarScrollable' = IF TouchEndSnaps(headerState) THEN TRUE ELSE calendarScrollable
  /\ headerState' = HeaderStateAfterTouchEnd
  /\ calls' = TouchEndCalls
  /\ event' = [op |-> "onTouchEnd", headerState |-> headerState, currentY |-> scrollPadY,
               calendarScrollable |-> calendarScrollable]
  /\ UNCHANGED <<viewHeight, calendarIsReady, firstResevationLoad, selectedDay, topDay,
                 knobTracker, scrollTimeout, timers, readyTimeouts, isMounted, lifecycle, props,
                 markings, dragging, optimisticPending, now>>

OnStartDrag ==
  /\ lifecycle = "mounted"
  /\ headerState' = "dragged"
  /\ knobTracker' = TrackerReset
  /\ dragging' = TRUE
  /\ calls' = <<>>
  /\ event' = [op |-> "onStartDrag", headerState |-> headerState,
               samples |-> Len(knobTracker)]
  /\ UNCHANGED <<viewHeight, scrollPadY, calendarIsReady, calendarScrollable,
                 firstResevationLoad, selectedDay, topDay, scrollTimeout, timers, readyTimeouts,
                 isMounted, lifecycle, props, markings, optimisticPending, now>>

(***************************************************************************)
(* The styles render() derives from the animated value scrollY.  A style   *)
(* value is a rational number; an interpolation is its input range and its *)
(* output range.  Animated's interpolate (React Native) is linear between  *)
(* the ends of the input range and, with extrapolate: 'clamp', constant    *)
(* outside; an input range of one point yields the first output for an     *)
(* input not above it and the second output otherwise.                     *)
(***************************************************************************)
Whole(n) == Rational(n, 1)
Half(n) == Rational(n, 2)

\* interpolate's check of its input range: monotonically non-decreasing
ValidInputRange(c) == c.inputRange[2] >= c.inputRange[1]

\* scrollY.interpolate(c), at the value input
Interpolate(c, input) ==
  LET inputMin == c.inputRange[1]
      inputMax == c.inputRange[2]
      outputMin == c.outputRange[1]
      outputMax == c.outputRange[2]
      clamped == IF input < inputMin THEN inputMin
                 ELSE IF input > inputMax THEN inputMax ELSE input
  IN  IF outputMin.num * outputMax.den = outputMax.num * outputMin.den THEN outputMin
      ELSE IF inputMin = inputMax
           THEN (IF input <= inputMin THEN outputMin ELSE outputMax)
           ELSE Rational(outputMin.num * outputMax.den * (inputMax - inputMin)
                           + (clamped - inputMin)
                             * (outputMax.num * outputMin.den - outputMin.num * outputMax.den),
                         outputMin.den * outputMax.den * (inputMax - inputMin))

\* render: const agendaHeight = Math.max(0, this.viewHeight - HEADER_HEIGHT)
AgendaHeight == Max(0, viewHeight - HEADER_HEIGHT)

\* render: the opacity of weekdaysStyle
WeekdaysOpacity ==
  [inputRange |-> <<AgendaHeight - HEADER_HEIGHT, AgendaHeight>>,
   outputRange |-> <<Whole(0), Whole(1)>>]

\* render: the translateY of weekdaysStyle
WeekdaysTranslateY ==
  [inputRange |-> <<Max(0, AgendaHeight - HEADER_HEIGHT), AgendaHeight>>,
   outputRange |-> <<Whole(-HEADER_HEIGHT), Whole(0)>>]

\* mutant of HeaderTranslate: the output range the other way round
HeaderTranslate_Swapped ==
  [inputRange |-> <<0, AgendaHeight>>,
   outputRange |-> <<Whole(0), Whole(AgendaHeight)>>]

\* render: headerTranslate
HeaderTranslate ==
  [inputRange |-> <<0, AgendaHeight>>,
   outputRange |-> <<Whole(AgendaHeight), Whole(0)>>]

\* render: knobTranslate
KnobTranslate ==
  [inputRange |-> <<0, AgendaHeight>>,
   outputRange |-> <<Half(-(AgendaHeight + HEADER_HEIGHT)), Whole(0)>>]

\* render: contentTranslate
ContentTranslate ==
  [inputRange |-> <<0, AgendaHeight>>,
   outputRange |-> <<Whole(0), Half(AgendaHeight - HEADER_HEIGHT)>>]

\* render: contentOpacity
ContentOpacity ==
  [inputRange |-> <<AgendaHeight - HEADER_HEIGHT, AgendaHeight>>,
   outputRange |-> <<Whole(1), Whole(0)>>]

\* the style s takes the value of the interpolation c at the value y of scrollY
Style(s, c, y) == Call(s, [valid |-> ValidInputRange(c), value |-> Interpolate(c, y)])

\* the styles bound to scrollY, at its value y
Styles(y) ==
  <<Style("weekdays.opacity", WeekdaysOpacity, y),
    Style("weekdays.translateY", WeekdaysTranslateY, y),
    Style("header.translateY", HeaderTranslate, y),
    Style("knob.translateY", KnobTranslate, y),
    Style("content.translateY", ContentTranslate, y),
    Style("content.opacity", ContentOpacity, y)>>

\* scrollY takes the value y: the styles bound to it follow, and its listener
\* runs: ({ value }) => this.knobTracker.add(value)
OnScroll(y) ==
  /\ lifecycle = "mounted"
  /\ knobTracker' = TrackerAdd(knobTracker, y, now)
  /\ calls' = Styles(y)
  /\ event' = [op |-> "onScroll", y |-> y]
  /\ UNCHANGED <<viewHeight, headerState, scrollPadY, calendarIsReady, calendarScrollable,
                 firstResevationLoad, selectedDay, topDay, scrollTimeout, timers, readyTimeouts,
                 isMounted, lifecycle, props, markings, dragging, optimisticPending, now>>

\* onSnapAfterDrag(e), with y = e.nativeEvent.contentOffset.y
OnSnapAfterDrag(y) ==
  /\ lifecycle = "mounted"
  /\ dragging
  /\ LET tracker == TrackerAdd(knobTracker, y, now)
         speed == EstimateSpeed(tracker)
         snapY == SnapAfterDragY(y, speed, InitialScrollPadPosition)
     IN  /\ knobTracker' = tracker
         /\ scrollPadY' = snapY
         /\ calendarScrollable' =
              IF TouchEndSnaps(headerState) \/ SnapEnablesScrolling(snapY)
              THEN TRUE ELSE calendarScrollable
         /\ calls' = TouchEndCalls \o <<ScrollTo(snapY, TRUE)>>
                     \o (IF SnapEnablesScrolling(snapY)
                         THEN EnableCalendarScrollingCalls ELSE <<>>)
         /\ event' = [op |-> "onSnapAfterDrag", headerState |-> headerState,
                      currentY |-> y, speed |-> speed,
                      calendarScrollable |-> calendarScrollable]
  /\ headerState' = HeaderStateAfterTouchEnd
  /\ dragging' = FALSE
  /\ UNCHANGED <<viewHeight, calendarIsReady, firstResevationLoad, selectedDay, topDay,
                 scrollTimeout, timers, readyTimeouts, isMounted, lifecycle, props, markings,
                 optimisticPending, now>>

\* onLayout(event), with h = event.nativeEvent.layout.height
OnLayout(h) ==
  /\ lifecycle = "mounted"
  /\ viewHeight' = h
  /\ calls' = <<>>
  /\ event' = [op |-> "onLayout", height |-> h]
  /\ UNCHANGED <<headerState, scrollPadY, calendarIsReady, calendarScrollable,
                 firstResevationLoad, selectedDay, topDay, knobTracker, scrollTimeout, timers,
                 readyTimeouts, isMounted, lifecycle, props, markings, dragging,
                 optimisticPending, now>>

\* the clock advances, up to the time limit
TickUpTo(limit) ==
  /\ now + TickMs <= limit
  /\ now' = now + TickMs
  /\ calls' = <<>>
  /\ event' = [op |-> "tick"]
  /\ UNCHANGED <<viewHeight, headerState, scrollPadY, calendarIsReady, calendarScrollable,
                 firstResevationLoad, selectedDay, topDay, knobTracker, scrollTimeout, timers,
                 readyTimeouts, isMounted, lifecycle, props, markings, dragging,
                 optimisticPending>>

Tick == TickUpTo(MaxTime)

(***************************************************************************)
(* Day selection.                                                          *)
(***************************************************************************)
\* mutant of ChooseDayTopDay: topDay follows the chosen day unconditionally
ChooseDayTopDay_Always(d, optimisticScroll) == d

\* chooseDay: if (!optimisticScroll) this.setState({ topDay: day.clone() })
ChooseDayTopDay(d, optimisticScroll) == IF ~optimisticScroll THEN d ELSE topDay

\* chooseDay: its calls
ChooseDayCalls(d) ==
  (IF props.onCalendarToggled THEN <<Call("onCalendarToggled", FALSE)>> ELSE <<>>)
  \o <<ScrollTo(InitialScrollPadPosition, TRUE)>>
  \o <<ScrollToDay(d, CalendarOffset2, TRUE)>>
  \o (IF props.loadItemsForMonth THEN <<Call("loadItemsForMonth", XdateToData(d))>> ELSE <<>>)
  \o (IF props.onDayPress THEN <<Call("onDayPress", XdateToData(d))>> ELSE <<>>)

\* chooseDay(d, optimisticScroll)
ChooseDay(d, optimisticScroll) ==
  /\ lifecycle = "mounted"
  /\ calendarScrollable' = FALSE
  /\ selectedDay' = d
  /\ topDay' = ChooseDayTopDay(d, optimisticScroll)
  /\ scrollPadY' = InitialScrollPadPosition
  /\ optimisticPending' = (optimisticScroll \/ optimisticPending)
  /\ calls' = ChooseDayCalls(d)
  /\ event' = [op |-> "chooseDay", day |-> d, optimisticScroll |-> optimisticScroll,
               topDay |-> topDay, calendarScrollable |-> calendarScrollable,
               scrollPadY |-> scrollPadY]
  /\ UNCHANGED <<viewHeight, headerState, calendarIsReady, firstResevationLoad,
                 knobTracker, scrollTimeout, timers, readyTimeouts, isMounted, lifecycle, props,
                 markings, dragging, now>>

\* _chooseDayFromCalendar(d): a day pressed in the calendar or in the week strip
ChooseDayFromCalendar(d) == ChooseDay(d, ~calendarScrollable)

\* mutant of WithAnimation: the scroll is always animated
WithAnimation_Always(d) == TRUE

\* onDayChange: const withAnimation = dateutils.sameMonth(newDate, this.state.selectedDay)
WithAnimation(d) == SameMonth(d, selectedDay)

\* onDayChange(day): the reservation list's top day changed
OnDayChange(d) ==
  /\ lifecycle = "mounted"
  /\ selectedDay' = d
  /\ optimisticPending' = FALSE
  /\ calls' = <<ScrollToDay(d, CalendarOffset2, WithAnimation(d))>>
              \o (IF props.onDayChange THEN <<Call("onDayChange", XdateToData(d))>> ELSE <<>>)
  /\ event' = [op |-> "onDayChange", day |-> d, selectedDay |-> selectedDay]
  /\ UNCHANGED <<viewHeight, headerState, scrollPadY, calendarIsReady, calendarScrollable,
                 firstResevationLoad, topDay, knobTracker, scrollTimeout, timers, readyTimeouts,
                 isMounted, lifecycle, props, markings, dragging, now>>

(***************************************************************************)
(* Lifecycle.                                                              *)
(***************************************************************************)
ComponentWillMount ==
  /\ lifecycle = "constructed"
  /\ lifecycle' = "mounted"
  /\ isMounted' = TRUE
  /\ firstResevationLoad' = (LoadReservationsFires(props) \/ firstResevationLoad)
  /\ calls' = LoadReservationsCalls(props, props)
  /\ event' = [op |-> "componentWillMount"]
  /\ UNCHANGED <<viewHeight, headerState, scrollPadY, calendarIsReady, calendarScrollable,
                 selectedDay, topDay, knobTracker, scrollTimeout, timers, readyTimeouts, props,
                 markings, dragging, optimisticPending, now>>

ComponentWillUnmount ==
  /\ lifecycle = "mounted"
  /\ lifecycle' = "unmounted"
  /\ isMounted' = FALSE
  /\ calls' = <<>>
  /\ event' = [op |-> "componentWillUnmount"]
  /\ UNCHANGED <<viewHeight, headerState, scrollPadY, calendarIsReady, calendarScrollable,
                 firstResevationLoad, selectedDay, topDay, knobTracker, scrollTimeout, timers,
                 readyTimeouts, props, markings, dragging, optimisticPending, now>>

\* componentWillReceiveProps(p); this.props is p when the setState callback runs
ComponentWillReceiveProps(p) ==
  /\ lifecycle = "mounted"
  /\ firstResevationLoad' = IF IsDefined(p.items) THEN FALSE
                            ELSE (LoadReservationsFires(p) \/ firstResevationLoad)
  /\ calls' = IF IsDefined(p.items) THEN <<>> ELSE LoadReservationsCalls(p, p)
  /\ props' = p
  /\ event' = [op |-> "componentWillReceiveProps"]
  /\ UNCHANGED <<viewHeight, headerState, scrollPadY, calendarIsReady, calendarScrollable,
                 selectedDay, topDay, knobTracker, scrollTimeout, timers, readyTimeouts, isMounted,
                 lifecycle, markings, dragging, optimisticPending, now>>

(***************************************************************************)
(* Readiness: the scroll pad's layout event and its deferred tick.         *)
(***************************************************************************)
\* onScrollPadLayout: this.setScrollPadPosition(<position>, false)
ScrollPadLayoutPosition == 0

OnScrollPadLayout ==
  /\ lifecycle = "mounted"
  /\ readyTimeouts < MaxReadyTimeouts
  /\ scrollPadY' = ScrollPadLayoutPosition
  /\ readyTimeouts' = readyTimeouts + 1
  /\ calls' = <<ScrollTo(ScrollPadLayoutPosition, FALSE)>>
  /\ event' = [op |-> "onScrollPadLayout"]
  /\ UNCHANGED <<viewHeight, headerState, calendarIsReady, calendarScrollable,
                 firstResevationLoad, selectedDay, topDay, knobTracker, scrollTimeout, timers,
                 isMounted, lifecycle, props, markings, dragging, optimisticPending, now>>

\* the callback of onScrollPadLayout's setTimeout(..., 0)
ReadyTimeoutFires ==
  /\ readyTimeouts > 0
  /\ readyTimeouts' = readyTimeouts - 1
  /\ calendarIsReady' = TRUE
  /\ calls' = <<>>
  /\ event' = [op |-> "readyTimeout"]
  /\ UNCHANGED <<viewHeight, headerState, scrollPadY, calendarScrollable,
                 firstResevationLoad, selectedDay, topDay, knobTracker, scrollTimeout, timers,
                 isMounted, lifecycle, props, markings, dragging, optimisticPending, now>>

(***************************************************************************)
(* Loading the items of the visible month, debounced.                      *)
(***************************************************************************)
\* mutant of VisibleMonthsQualifies: the item map must be absent
VisibleMonthsQualifies_ItemsAbsent == ~IsDefined(props.items) /\ ~firstResevationLoad

\* onVisibleMonthsChange: if (this.props.items && !this.state.firstResevationLoad)
VisibleMonthsQualifies == IsDefined(props.items) /\ ~firstResevationLoad

\* mutant of ClearTimeout: nothing is cancelled
ClearTimeout_Nothing(pending, id) == pending

\* clearTimeout(id): the pending timers left
ClearTimeout(pending, id) == {t \in pending : ~(IsDefined(id) /\ t.id = ValueOf(id))}

\* the id setTimeout returns: one that no pending timer has
NewTimerId(pending) == CHOOSE n \in 0..Cardinality(pending) : \A t \in pending : t.id # n

\* onVisibleMonthsChange(months)
OnVisibleMonthsChange(months) ==
  /\ lifecycle = "mounted"
  /\ LET left == ClearTimeout(timers, scrollTimeout)
         id == NewTimerId(left)
     IN  IF VisibleMonthsQualifies
         THEN /\ timers' = left \cup {[id |-> id, month |-> months[1],
                                       due |-> now + DebounceMs]}
              /\ scrollTimeout' = Some(id)
         ELSE UNCHANGED <<timers, scrollTimeout>>
  /\ calls' = <<>>
  /\ event' = [op |-> "onVisibleMonthsChange", months |-> months]
  /\ UNCHANGED <<viewHeight, headerState, scrollPadY, calendarIsReady, calendarScrollable,
                 firstResevationLoad, selectedDay, topDay, knobTracker, readyTimeouts,
                 isMounted, lifecycle, props, markings, dragging, optimisticPending, now>>

\* mutant of ScrollTimeoutLoads: no check of the liveness flag
ScrollTimeoutLoads_Unguarded == props.loadItemsForMonth

\* the callback: if (this.props.loadItemsForMonth && this._isMounted)
ScrollTimeoutLoads == props.loadItemsForMonth /\ isMounted

\* the callback of onVisibleMonthsChange's setTimeout(..., 200), for the
\* pending timer t; this.scrollTimeout keeps the id
ScrollTimeoutFires ==
  \E t \in timers :
    /\ now >= t.due
    /\ timers' = timers \ {t}
    /\ calls' = IF ScrollTimeoutLoads
                THEN <<Call("loadItemsForMonth", t.month)>>
                ELSE <<>>
    /\ event' = [op |-> "scrollTimeout", isMounted |-> isMounted, timer |-> t]
    /\ UNCHANGED <<viewHeight, headerState, scrollPadY, calendarIsReady,
                   calendarScrollable, firstResevationLoad, selectedDay, topDay,
                   knobTracker, scrollTimeout, readyTimeouts, isMounted, lifecycle, props,
                   markings, dragging, optimisticPending, now>>

(***************************************************************************)
(* Markings.  A marking is a function from attribute names to values; the  *)
(* marked dates are a function from date keys to markings.                 *)
(***************************************************************************)
EmptyObject == [a \in {} |-> TRUE]

\* { ...a, ...b }
Spread(a, b) == [k \in DOMAIN a \cup DOMAIN b |-> IF k \in DOMAIN b THEN b[k] ELSE a[k]]

\* generateMarkings: the markings it starts from
BaseMarkings ==
  IF IsDefined(props.markedDates) THEN ValueOf(props.markedDates)
  ELSE LET items == IF IsDefined(props.items) THEN ValueOf(props.items) ELSE EmptyObject
       IN  [k \in {key \in DOMAIN items : ~items[key].null /\ Len(items[key].list) > 0}
              |-> [marked |-> TRUE]]

\* mutant of SelectedMarking: the day's marking is replaced, not merged
SelectedMarking_Replaced(base, key) == [selected |-> TRUE]

\* generateMarkings: { ...(markings[key] || {}), ...{ selected: true } }
SelectedMarking(base, key) ==
  Spread(IF key \in DOMAIN base THEN base[key] ELSE EmptyObject, [selected |-> TRUE])

\* generateMarkings()
GenerateMarkings ==
  LET key == DateKey(selectedDay)
  IN  [k \in DOMAIN BaseMarkings \cup {key} |->
         IF k = key THEN SelectedMarking(BaseMarkings, key) ELSE BaseMarkings[k]]

\* render(): markedDates={this.generateMarkings()}
Render ==
  /\ lifecycle = "mounted"
  /\ markings' = Some(GenerateMarkings)
  /\ calls' = <<>>
  /\ event' = [op |-> "render"]
  /\ UNCHANGED <<viewHeight, headerState, scrollPadY, calendarIsReady, calendarScrollable,
                 firstResevationLoad, selectedDay, topDay, knobTracker, scrollTimeout, timers,
                 readyTimeouts, isMounted, lifecycle, props, dragging, optimisticPending,
                 now>>

(***************************************************************************)
(* Initial states: the state the constructor leaves, for a window height h,*)
(* an initially selected day d and props p.                                *)
(***************************************************************************)
Constructed(h, d, p) ==
  /\ viewHeight = h
  /\ headerState = "idle"
  /\ scrollPadY = 0
  /\ calendarIsReady = TRUE
  /\ calendarScrollable = TRUE
  /\ firstResevationLoad = FALSE
  /\ selectedDay = d
  /\ topDay = d
  /\ knobTracker = <<>>
  /\ scrollTimeout = Undefined
  /\ timers = {}
  /\ readyTimeouts = 0
  /\ isMounted = FALSE
  /\ lifecycle = "constructed"
  /\ props = p
  /\ markings = Undefined
  /\ dragging = FALSE
  /\ optimisticPending = FALSE
  /\ now = 0
  /\ event = [op |-> "constructor"]
  /\ calls = <<>>

(***************************************************************************)
(* Input sets.                                                             *)
(***************************************************************************)
\* one item of a day's list
Item == "x"
\* a day's list of items: null, or a list
NullList == [null |-> TRUE, list |-> <<>>]
List(l) == [null |-> FALSE, list |-> l]
ItemLists == {NullList, List(<<>>), List(<<Item>>)}

Day1 == Day(2024, 5, 1)
Day2 == Day(2024, 5, 2)
Day3 == Day(2024, 6, 1)
Days == {Day1, Day2, Day3}

\* viewport heights: one below the header's height, and maxY = 300, 400, 600, 662
Heights == {100, 438, 538, 738, 800}
\* the heights of the specifications that also run the clock
FewHeights == {438, 800}

\* scroll positions the scroll pad reports
Positions == {100, 300, 400}

Props(items, markedDates, toggled, load, press, change) ==
  [items |-> items, markedDates |-> markedDates, horizontal |-> FALSE,
   onCalendarToggled |-> toggled, loadItemsForMonth |-> load, onDayPress |-> press,
   onDayChange |-> change]

\* date keys as a caller writes them: '2024-05-01', '2024-05-02', '2024-06-01',
\* and one that is not zero padded, '2024-5-2'
Key0501 == <<"2", "0", "2", "4", "-", "0", "5", "-", "0", "1">>
Key0502 == <<"2", "0", "2", "4", "-", "0", "5", "-", "0", "2">>
Key0601 == <<"2", "0", "2", "4", "-", "0", "6", "-", "0", "1">>
KeyUnpadded == <<"2", "0", "2", "4", "-", "5", "-", "2">>

\* the item maps over the first two keys
ItemMaps == UNION {[keys -> ItemLists] : keys \in SUBSET {Key0501, Key0502}}

\* caller-supplied marks
MarkedDates ==
  {EmptyObject,
   Key0502 :> [marked |-> TRUE],
   Key0502 :> [marked |-> TRUE, selected |-> FALSE],
   (Key0501 :> [disabled |-> TRUE]) @@ (Key0601 :> [marked |-> TRUE]),
   KeyUnpadded :> [marked |-> TRUE]}

SomeItems == Some((Key0501 :> List(<<Item>>)) @@ (Key0502 :> List(<<>>)))

\* props with every callback supplied
FullProps(items) == Props(items, Undefined, TRUE, TRUE, TRUE, TRUE)

(***************************************************************************)
(* Taps on the knob and drags at one instant, with layout changes and day  *)
(* presses, for every viewport height.                                     *)
(***************************************************************************)
InitTap ==
  \E h \in Heights, toggled \in BOOLEAN :
    Constructed(h, Day1, Props(SomeItems, Undefined, toggled, TRUE, TRUE, TRUE))

NextTap ==
  \/ ComponentWillMount
  \/ OnTouchStart
  \/ OnTouchEnd
  \/ OnStartDrag
  \/ \E y \in Positions : OnSnapAfterDrag(y)
  \/ \E h \in Heights : OnLayout(h)
  \/ \E d \in {Day2} : ChooseDayFromCalendar(d)

SpecTap == InitTap /\ [][NextTap]_vars

(***************************************************************************)
(* The gestures of the knob with the clock running: taps, drags, scroll    *)
(* samples, layout changes and day presses.                                *)
(***************************************************************************)
InitGesture == \E h \in FewHeights : Constructed(h, Day1, FullProps(SomeItems))

NextGesture ==
  \/ ComponentWillMount
  \/ OnTouchStart
  \/ OnTouchEnd
  \/ OnStartDrag
  \/ \E y \in Positions : OnScroll(y)
  \/ \E y \in Positions : OnSnapAfterDrag(y)
  \/ \E h \in FewHeights : OnLayout(h)
  \/ \E d \in {Day2} : ChooseDayFromCalendar(d)
  \/ Tick

SpecGesture == InitGesture /\ [][NextGesture]_vars

(***************************************************************************)
(* Day selection: days chosen in the calendar or through chooseDay, day    *)
(* changes of the list, taps and layout changes.                           *)
(***************************************************************************)
InitDays ==
  \E h \in {100, 438, 800}, d \in Days, load \in BOOLEAN, press \in BOOLEAN :
    Constructed(h, d, Props(SomeItems, Undefined, TRUE, load, press, TRUE))

NextDays ==
  \/ ComponentWillMount
  \/ OnTouchStart
  \/ OnTouchEnd
  \/ \E h \in {100, 438, 800} : OnLayout(h)
  \/ \E d \in Days, optimisticScroll \in BOOLEAN : ChooseDay(d, optimisticScroll)
  \/ \E d \in Days : ChooseDayFromCalendar(d)
  \/ \E d \in Days : OnDayChange(d)

SpecDays == InitDays /\ [][NextDays]_vars

(***************************************************************************)
(* Markings: render, for every item map and every caller-supplied marks,   *)
(* with the selected day moved by the list.                                *)
(***************************************************************************)
InitMarkings ==
  \E d \in Days,
     items \in {Undefined} \cup {Some(m) : m \in ItemMaps},
     markedDates \in {Undefined} \cup {Some(m) : m \in MarkedDates} :
    Constructed(800, d, Props(items, markedDates, TRUE, TRUE, TRUE, TRUE))

NextMarkings ==
  \/ ComponentWillMount
  \/ \E d \in Days : OnDayChange(d)
  \/ Render

SpecMarkings == InitMarkings /\ [][NextMarkings]_vars

(***************************************************************************)
(* The styles bound to scrollY, for viewport heights below, at and above   *)
(* the header's height and twice the header's height.                      *)
(***************************************************************************)
RenderHeights == {100, 138, 139, 200, 276, 277, 300, 438}
RenderPositions == {0, 1, 62, 69, 100, 138, 139, 162, 300}

InitRender == \E h \in RenderHeights : Constructed(h, Day1, FullProps(SomeItems))

NextRender ==
  \/ ComponentWillMount
  \/ \E h \in RenderHeights : OnLayout(h)
  \/ \E y \in RenderPositions : OnScroll(y)

SpecRender == InitRender /\ [][NextRender]_vars

(***************************************************************************)
(* Loading the items of the visible month: the calendar reports visible    *)
(* months, props arrive with or without an item map, the component is      *)
(* unmounted, the clock runs and the debounce timer fires.                 *)
(***************************************************************************)
Month5 == XdateToData(Day(2024, 5, 1))
Month6 == XdateToData(Day(2024, 6, 1))
MonthLists == {<<Month5, Month6>>, <<Month6>>}

LoadProps == {Props(items, Undefined, TRUE, load, TRUE, TRUE) :
                items \in {Undefined, SomeItems}, load \in BOOLEAN}

InitLoad == \E p \in LoadProps : Constructed(800, Day1, p)

NextLoad ==
  \/ ComponentWillMount
  \/ ComponentWillUnmount
  \/ \E p \in LoadProps : ComponentWillReceiveProps(p)
  \/ \E months \in MonthLists : OnVisibleMonthsChange(months)
  \/ ScrollTimeoutFires
  \/ TickUpTo(MaxLoadTime)

SpecLoad == InitLoad /\ [][NextLoad]_vars

(***************************************************************************)
(* Every operation of the component, for one viewport height and one day.  *)
(***************************************************************************)
Init ==
  \E items \in {Undefined, SomeItems} :
    Constructed(800, Day1, FullProps(items))

Next ==
  \/ ComponentWillMount
  \/ ComponentWillUnmount
  \/ \E items \in {Undefined, SomeItems} : ComponentWillReceiveProps(FullProps(items))
  \/ OnScrollPadLayout
  \/ ReadyTimeoutFires
  \/ \E h \in {800} : OnLayout(h)
  \/ OnTouchStart
  \/ OnTouchEnd
  \/ OnStartDrag
  \/ \E y \in {300} : OnSnapAfterDrag(y)
  \/ \E d \in {Day1} : ChooseDayFromCalendar(d)
  \/ \E d \in {Day1} : OnDayChange(d)
  \/ \E months \in {<<XdateToData(Day1)>>} :
       OnVisibleMonthsChange(months)
  \/ ScrollTimeoutFires
  \/ Render
  \/ Tick

Spec == Init /\ [][Next]_vars

(***************************************************************************)
(* What the claims read.                                                   *)
(***************************************************************************)
\* the last handler made the call fn(arg)
Made(fn, arg) == \E i \in 1..Len(calls) : calls[i].fn = fn /\ calls[i].arg = arg

\* the number of calls of fn the last handler made
CallCount(fn) == Cardinality({i \in 1..Len(calls) : calls[i].fn = fn})

\* maxScrollY = max(0, viewportHeight - headerHeight), for viewport height h
MaxScrollY(h) == IF h - 138 > 0 THEN h - 138 ELSE 0

\* the last handler was a touch-end delivered while the header state was st
TouchEndedWhile(st) == event.op = "onTouchEnd" /\ event.headerState = st

(***************************************************************************)
(* C1                                                                      *)
(***************************************************************************)
\* C1, as claimed: a touch-end delivered while 'touched' at position p snaps
\* to 0 when p < maxScrollY/2 and to maxScrollY when p > maxScrollY/2, and in
\* the latter case calendarScrollable is true afterward.  (The code snaps the
\* other way.)
C1_AsClaimed ==
  TouchEndedWhile("touched") =>
    /\ 2 * event.currentY < MaxScrollY(viewHeight) => scrollPadY = 0
    /\ 2 * event.currentY > MaxScrollY(viewHeight) =>
         scrollPadY = MaxScrollY(viewHeight) /\ calendarScrollable

\* C1, amended: a touch-end delivered while 'touched' at position p snaps to
\* maxScrollY when p < maxScrollY/2 and to 0 when p > maxScrollY/2, and in the
\* latter case calendarScrollable is true afterward.
C1_TouchEndTogglesEndpoint ==
  TouchEndedWhile("touched") =>
    /\ 2 * event.currentY < MaxScrollY(viewHeight) => scrollPadY = MaxScrollY(viewHeight)
    /\ 2 * event.currentY > MaxScrollY(viewHeight) => scrollPadY = 0 /\ calendarScrollable

\* viewport 800, touch-end at 400 (> 331) with the calendar's scrolling disabled
C1_Witness ==
  /\ TouchEndedWhile("touched")
  /\ viewHeight = 800
  /\ event.currentY = 400
  /\ ~event.calendarScrollable
  /\ scrollPadY = 0
  /\ calendarScrollable

(***************************************************************************)
(* C2                                                                      *)
(***************************************************************************)
\* the target of a touch-end: 0 if the position is strictly greater than
\* maxY/2, maxY otherwise
C2_Target == IF 2 * event.currentY > MaxScrollY(viewHeight) THEN 0 ELSE MaxScrollY(viewHeight)

\* C2: for every touch-end delivered while 'touched', the snap target is 0 if
\* the scroll position is strictly greater than maxY/2 and maxY otherwise; an
\* animated scrollTo to the target is issued, scrollPadY is the target and the
\* header state is 'idle'.
C2_TouchEndSnap ==
  TouchEndedWhile("touched") =>
    /\ scrollPadY = C2_Target
    /\ Made("scrollPad.scrollTo", [x |-> 0, y |-> C2_Target, animated |-> TRUE])
    /\ CallCount("scrollPad.scrollTo") = 1
    /\ headerState = "idle"

\* the position is exactly maxY/2 (300 of 600): not strictly greater, so maxY
C2_Witness ==
  /\ TouchEndedWhile("touched")
  /\ event.currentY = 300
  /\ viewHeight = 738
  /\ scrollPadY = 600

(***************************************************************************)
(* C3                                                                      *)
(***************************************************************************)
\* y + v * 250 > maxY / 2, for v = num / den units per ms (den > 0)
C3_ProjectedPastMidpoint ==
  2 * event.currentY * event.speed.den + 2 * 250 * event.speed.num
    > MaxScrollY(viewHeight) * event.speed.den

\* C3: on drag-end at raw position y with estimated speed v, the snap target
\* is maxY when the projected position y + v * 250 is greater than maxY/2 and
\* 0 otherwise, whatever y alone would give; scrollPadY becomes the target.
C3_DragEndSnapsByProjection ==
  event.op = "onSnapAfterDrag" =>
    /\ event.speed.den > 0
    /\ scrollPadY = IF C3_ProjectedPastMidpoint THEN MaxScrollY(viewHeight) ELSE 0
    /\ Made("scrollPad.scrollTo", [x |-> 0, y |-> scrollPadY, animated |-> TRUE])

\* maxY = 662, y = 300 (below the midpoint 331) at +2.0 per ms: target 662
C3_Witness ==
  /\ event.op = "onSnapAfterDrag"
  /\ viewHeight = 800
  /\ event.currentY = 300
  /\ event.speed.num = 2 * event.speed.den
  /\ scrollPadY = 662

(***************************************************************************)
(* C4                                                                      *)
(***************************************************************************)
\* the last handler was a gesture snap
C4_GestureSnap ==
  \/ TouchEndedWhile("touched")
  \/ event.op = "onSnapAfterDrag"

\* C4, as claimed: a gesture snap (touch-end while 'touched', or drag-end)
\* sets calendarScrollable to true and calls onCalendarToggled(true) if and
\* only if its snap target is 0; a snap to maxY does neither.
C4_AsClaimed ==
  C4_GestureSnap =>
    /\ props.onCalendarToggled => (Made("onCalendarToggled", TRUE) <=> scrollPadY = 0)
    /\ scrollPadY # 0 => calendarScrollable = event.calendarScrollable

(***************************************************************************)
(* C5                                                                      *)
(***************************************************************************)
\* what a step may do to the header state
C5_Step ==
  /\ headerState' \in {"idle", "touched", "dragged"}
  /\ event'.op = "onTouchStart" => headerState' = "touched"
  /\ event'.op = "onStartDrag" => headerState' = "dragged" /\ Len(knobTracker') = 0
  /\ event'.op \in {"onTouchEnd", "onSnapAfterDrag"} => headerState' = "idle"
  /\ event'.op \notin {"onTouchStart", "onTouchEnd", "onStartDrag", "onSnapAfterDrag"}
       => headerState' = headerState

\* C5: the header state starts 'idle' and is always 'idle', 'touched' or
\* 'dragged'; touch-start makes it 'touched'; drag-start makes it 'dragged'
\* from any state and resets the velocity tracker; after a touch-end and after
\* a drag-end it is 'idle'; no other operation changes it.
C5_HeaderStateMachine == headerState = "idle" /\ [][C5_Step]_vars

\* a drag-start while 'touched', with a sample in the tracker
C5_Witness ==
  /\ event.op = "onStartDrag"
  /\ event.headerState = "touched"
  /\ event.samples > 0
  /\ headerState = "dragged"
  /\ Len(knobTracker) = 0

(***************************************************************************)
(* C6                                                                      *)
(***************************************************************************)
\* C6: a touch-end delivered while 'idle' is a no-op: no scrollTo, no
\* onCalendarToggled, scrollPadY, calendarScrollable, selectedDay and topDay
\* unchanged, header state still 'idle'.
C6_TouchEndWhileIdleIsNoOp ==
  [][(event'.op = "onTouchEnd" /\ headerState = "idle") =>
       /\ UNCHANGED <<scrollPadY, calendarScrollable, selectedDay, topDay, headerState>>
       /\ CallCount("scrollPad.scrollTo")' = 0
       /\ CallCount("onCalendarToggled")' = 0]_vars

\* a touch-end while idle, with the header collapsed and the calendar not scrollable
C6_Witness ==
  /\ TouchEndedWhile("idle")
  /\ scrollPadY = 662
  /\ ~calendarScrollable
  /\ headerState = "idle"

(***************************************************************************)
(* C7                                                                      *)
(***************************************************************************)
\* no touch and no drag is under way
C7_AtRest == headerState = "idle" /\ ~dragging

\* C7, as claimed: at rest the logical scroll position is within [0, maxY],
\* maxY = max(0, viewportHeight - headerHeight) for the current viewport height.
C7_AsClaimed == C7_AtRest => 0 <= scrollPadY /\ scrollPadY <= MaxScrollY(viewHeight)

(***************************************************************************)
(* C8                                                                      *)
(***************************************************************************)
\* chooseDay(date, false) sets selectedDay and topDay to date; chooseDay(date,
\* true) sets selectedDay to date and leaves topDay unchanged
C8_ChooseDayStep ==
  event'.op = "chooseDay" =>
    /\ selectedDay' = event'.day
    /\ topDay' = IF event'.optimisticScroll THEN topDay ELSE event'.day

\* C8, as claimed: chooseDay(date, false) sets selectedDay and topDay to date;
\* chooseDay(date, true) sets selectedDay and leaves topDay unchanged, and
\* topDay stays unchanged until a subsequent list day-change event.
C8_AsClaimed ==
  [][/\ C8_ChooseDayStep
     /\ (optimisticPending /\ event'.op # "onDayChange") => topDay' = topDay]_vars

\* C8, amended: chooseDay(date, false) sets selectedDay and topDay to date;
\* chooseDay(date, true) sets selectedDay and leaves topDay unchanged, and
\* topDay stays unchanged until a chooseDay with optimisticScroll = false (a
\* list day-change event does not change it).
C8_TopDayFollowsNonOptimisticChoice ==
  [][/\ C8_ChooseDayStep
     /\ topDay' # topDay => (event'.op = "chooseDay" /\ ~event'.optimisticScroll)]_vars

\* an optimistic chooseDay has left topDay behind, and the list has since
\* reported another day
C8_Witness ==
  /\ event.op = "onDayChange"
  /\ event.selectedDay = Day3
  /\ selectedDay = Day2
  /\ topDay = Day1
  /\ ~calendarScrollable

(***************************************************************************)
(* C9                                                                      *)
(***************************************************************************)
\* the last handler called fn with the data of the chosen day
C9_DateData(fn) ==
  \E i \in 1..Len(calls) :
    /\ calls[i].fn = fn
    /\ calls[i].arg.year = event.day.year
    /\ calls[i].arg.month = event.day.month
    /\ calls[i].arg.day = event.day.day

\* C9: after chooseDay(date, _), from any state, calendarScrollable is false
\* and scrollPadY is max(0, viewportHeight - headerHeight); the call asks the
\* calendar once to scroll to date and, where the callbacks are supplied,
\* requests the items of date's month once and notifies the day-press observer
\* once with date.
C9_ChooseDayCollapses ==
  event.op = "chooseDay" =>
    /\ ~calendarScrollable
    /\ scrollPadY = MaxScrollY(viewHeight)
    /\ CallCount("calendar.scrollToDay") = 1
    /\ \E i \in 1..Len(calls) :
         calls[i].fn = "calendar.scrollToDay" /\ calls[i].arg.day = event.day
    /\ CallCount("loadItemsForMonth") = (IF props.loadItemsForMonth THEN 1 ELSE 0)
    /\ props.loadItemsForMonth => C9_DateData("loadItemsForMonth")
    /\ CallCount("onDayPress") = (IF props.onDayPress THEN 1 ELSE 0)
    /\ props.onDayPress => C9_DateData("onDayPress")

\* a day chosen while the calendar was expanded and scrollable, with both
\* callbacks supplied
C9_Witness ==
  /\ event.op = "chooseDay"
  /\ event.day = Day3
  /\ event.calendarScrollable
  /\ event.scrollPadY = 0
  /\ props.loadItemsForMonth
  /\ props.onDayPress
  /\ scrollPadY = 662
  /\ ~calendarScrollable

(***************************************************************************)
(* C10                                                                     *)
(***************************************************************************)
\* the 'yyyy-MM-dd' key of the selected day
C10_SelectedKey ==
  CASE selectedDay = Day1 -> Key0501
    [] selectedDay = Day2 -> Key0502
    [] selectedDay = Day3 -> Key0601

\* the date keys with a non-empty item list
C10_KeysWithItems ==
  IF IsDefined(props.items)
  THEN {k \in DOMAIN ValueOf(props.items) :
          ~ValueOf(props.items)[k].null /\ ValueOf(props.items)[k].list # <<>>}
  ELSE {}

\* the keys marked before the selection is added
C10_MarkedKeys ==
  IF IsDefined(props.markedDates) THEN DOMAIN ValueOf(props.markedDates)
  ELSE C10_KeysWithItems

\* the attributes of key k before the selection is added, k a marked key
C10_Marking(k) ==
  IF IsDefined(props.markedDates) THEN ValueOf(props.markedDates)[k] ELSE [marked |-> TRUE]

\* m is the marks before the selection, with selected: true merged onto the
\* entry of the selected day
C10_Returned(m) ==
  /\ DOMAIN m = C10_MarkedKeys \cup {C10_SelectedKey}
  /\ \A k \in C10_MarkedKeys \ {C10_SelectedKey} : m[k] = C10_Marking(k)
  /\ LET had == IF C10_SelectedKey \in C10_MarkedKeys
                THEN DOMAIN C10_Marking(C10_SelectedKey) ELSE {}
     IN  /\ DOMAIN m[C10_SelectedKey] = had \cup {"selected"}
         /\ m[C10_SelectedKey].selected = TRUE
         /\ \A a \in had \ {"selected"} :
              m[C10_SelectedKey][a] = C10_Marking(C10_SelectedKey)[a]

\* C10: generateMarkings() mutates no caller-supplied object and returns the
\* caller-supplied marks if given, otherwise {marked: true} for exactly the
\* date keys whose item list is non-empty (none for a null or empty list); in
\* both cases the entry of the selected day has selected: true merged onto the
\* attributes it had.
C10_GenerateMarkings ==
  [][event'.op = "render" =>
       /\ props' = props
       /\ IsDefined(markings')
       /\ C10_Returned(ValueOf(markings))']_vars

\* items {'2024-05-01': [x], '2024-05-02': []}, selectedDay '2024-05-02'
C10_Witness ==
  /\ event.op = "render"
  /\ ~IsDefined(props.markedDates)
  /\ props.items = Some((Key0501 :> List(<<Item>>)) @@ (Key0502 :> List(<<>>)))
  /\ selectedDay = Day2
  /\ markings = Some((Key0501 :> [marked |-> TRUE]) @@ (Key0502 :> [selected |-> TRUE]))

(***************************************************************************)
(* C11                                                                     *)
(***************************************************************************)
\* C11: a list day-change event for date d sets selectedDay to d, leaves
\* topDay, calendarScrollable, scrollPadY and the header state unchanged, and
\* asks the calendar to scroll to d, animated if and only if d is in the same
\* month as the selectedDay held before the event.
C11_DayChangeFromList ==
  [][event'.op = "onDayChange" =>
       /\ selectedDay' = event'.day
       /\ UNCHANGED <<topDay, calendarScrollable, scrollPadY, headerState>>
       /\ CallCount("calendar.scrollToDay")' = 1
       /\ \E i \in 1..Len(calls') :
            /\ calls'[i].fn = "calendar.scrollToDay"
            /\ calls'[i].arg.day = event'.day
            /\ calls'[i].arg.animated =
                 (/\ event'.day.year = selectedDay.year
                  /\ event'.day.month = selectedDay.month)]_vars

\* the list moves from 2 May 2024 to 1 June 2024 while the header is
\* collapsed and the top day is 1 May: the calendar scrolls without animation
C11_Witness ==
  /\ event.op = "onDayChange"
  /\ event.selectedDay = Day(2024, 5, 2)
  /\ selectedDay = Day(2024, 6, 1)
  /\ topDay = Day(2024, 5, 1)
  /\ ~calendarScrollable
  /\ scrollPadY = MaxScrollY(viewHeight) /\ scrollPadY > 0
  /\ Made("calendar.scrollToDay",
          [day |-> Day(2024, 6, 1), offset2 |-> 2 * 90 - viewHeight, animated |-> FALSE])

(***************************************************************************)
(* C12                                                                     *)
(***************************************************************************)
\* the step is a collapse-snap: chooseDay, or a drag-end resolving to maxY
C12_CollapseSnap ==
  \/ event'.op = "chooseDay"
  \/ event'.op = "onSnapAfterDrag" /\ scrollPadY' = MaxScrollY(viewHeight)

\* C12, as claimed: a collapse-snap (chooseDay, or a drag-end resolving to
\* maxY) made when scrollPadY already equals maxY leaves both scrollPadY and
\* calendarScrollable unchanged, whatever value calendarScrollable had.  (The
\* code's chooseDay sets calendarScrollable to false whatever it was.)
C12_AsClaimed ==
  [][C12_CollapseSnap /\ scrollPadY = MaxScrollY(viewHeight) =>
       UNCHANGED <<scrollPadY, calendarScrollable>>]_vars

(***************************************************************************)
(* C13                                                                     *)
(***************************************************************************)
\* the interpolations as declared, for maxScrollY = m: the input domain and
\* twice the outputs at its two edges
C13_Declared(m) ==
  [fn \in {"weekdays.opacity", "weekdays.translateY", "header.translateY",
           "knob.translateY", "content.translateY", "content.opacity"} |->
     CASE fn = "weekdays.opacity" -> [lo |-> m - 138, hi |-> m, atLo |-> 0, atHi |-> 2]
       [] fn = "weekdays.translateY" ->
            [lo |-> IF m - 138 > 0 THEN m - 138 ELSE 0, hi |-> m, atLo |-> -276, atHi |-> 0]
       [] fn = "header.translateY" -> [lo |-> 0, hi |-> m, atLo |-> 2 * m, atHi |-> 0]
       [] fn = "knob.translateY" -> [lo |-> 0, hi |-> m, atLo |-> -(m + 138), atHi |-> 0]
       [] fn = "content.translateY" -> [lo |-> 0, hi |-> m, atLo |-> 0, atHi |-> m - 138]
       [] fn = "content.opacity" -> [lo |-> m - 138, hi |-> m, atLo |-> 2, atHi |-> 0]]

\* what the style fn was given by the last handler
C13_Style(fn) == calls[CHOOSE i \in 1..Len(calls) : calls[i].fn = fn].arg

\* twice the value v is the integer n
C13_Twice(v, n) == 2 * v.num = n * v.den

\* twice the value v lies between the integers a and b, in either order
C13_Between(v, a, b) ==
  \/ a * v.den <= 2 * v.num /\ 2 * v.num <= b * v.den
  \/ b * v.den <= 2 * v.num /\ 2 * v.num <= a * v.den

\* C13: for every viewport height (also one not above the header's height,
\* or below twice the header's height) and every position p in
\* [0, maxScrollY], each derived interpolation (weekday-strip opacity and
\* offset, header offset, knob offset, month-grid content offset and opacity)
\* yields a defined value within its declared output range, and the output
\* declared for a domain edge when p is at or beyond that edge; the header
\* offset is maxScrollY - p.
C13_Interpolations ==
  event.op = "onScroll" /\ event.y <= MaxScrollY(viewHeight) =>
    /\ \A fn \in DOMAIN C13_Declared(MaxScrollY(viewHeight)) :
         LET d == C13_Declared(MaxScrollY(viewHeight))[fn]
             v == C13_Style(fn).value
         IN  /\ CallCount(fn) = 1
             /\ C13_Style(fn).valid
             /\ v.den > 0
             /\ C13_Between(v, d.atLo, d.atHi)
             /\ event.y <= d.lo \/ event.y >= d.hi =>
                  \/ event.y <= d.lo /\ C13_Twice(v, d.atLo)
                  \/ event.y >= d.hi /\ C13_Twice(v, d.atHi)
    /\ C13_Twice(C13_Style("header.translateY").value,
                 2 * (MaxScrollY(viewHeight) - event.y))

\* viewport 200 (maxScrollY = 62, the opacity domain starts at -76), p = 1:
\* the header offset is 61 and the weekday-strip opacity is 77/138
C13_Witness ==
  /\ event.op = "onScroll"
  /\ viewHeight = 200
  /\ event.y = 1
  /\ C13_Style("header.translateY").value.num = 61 * C13_Style("header.translateY").value.den
  /\ 138 * C13_Style("weekdays.opacity").value.num
       = 77 * C13_Style("weekdays.opacity").value.den

(***************************************************************************)
(* C14                                                                     *)
(***************************************************************************)
\* among the pending timers is the one a visible-months event arms at the
\* current time
C14_Armed(pending, months) ==
  \E t \in pending : t.month = months[1] /\ t.due = now + 200

\* C14, as claimed: when the visible months change while the item map is
\* absent, a request for the first visible month's items is issued to
\* loadItemsForMonth after the 200 ms debounce, provided the component is
\* still mounted: the event leaves the debounce timer pending for that month.
\* (The code arms the timer only when the item map is present.)
C14_AsClaimed ==
  [][event'.op = "onVisibleMonthsChange" /\ ~IsDefined(props.items) =>
       C14_Armed(timers', event'.months)]_vars

\* C14, amended: when the visible months change while the item map is
\* present and no first load is in progress, the debounce timer is armed for
\* the first visible month, due 200 ms later; otherwise (item map absent, or
\* first load in progress) the event arms nothing and requests nothing.  The
\* timer fires no earlier than it is due, and then requests that month's
\* items through loadItemsForMonth, provided the component is still mounted
\* and the callback is supplied.
C14_VisibleMonthsLoad ==
  /\ [][event'.op = "onVisibleMonthsChange" =>
          /\ calls' = <<>>
          /\ IF IsDefined(props.items) /\ ~firstResevationLoad
             THEN C14_Armed(timers', event'.months)
             ELSE timers' = timers]_vars
  /\ [][event'.op = "scrollTimeout" =>
          /\ event'.timer \in timers
          /\ now >= event'.timer.due
          /\ calls' = IF isMounted /\ props.loadItemsForMonth
                      THEN <<Call("loadItemsForMonth", event'.timer.month)>>
                      ELSE <<>>]_vars

\* the months from May 2024 on became visible at time 0 with an item map
\* present; at 200 ms the items of May 2024 are requested
C14_Witness ==
  /\ event.op = "scrollTimeout"
  /\ now = 200
  /\ IsDefined(props.items)
  /\ lifecycle = "mounted"
  /\ calls = <<Call("loadItemsForMonth",
                    [year |-> 2024, month |-> 5, day |-> 1, dateString |-> Key0501])>>

(***************************************************************************)
(* C15                                                                     *)
(***************************************************************************)
\* C15: a debounced item-load callback that fires after componentWillUnmount
\* has run is a no-op: it calls neither loadItemsForMonth nor anything else
\* and changes nothing of the component's state.
C15_StaleCallbackIsNoOp ==
  [][event'.op = "scrollTimeout" /\ lifecycle = "unmounted" =>
       /\ calls' = <<>>
       /\ UNCHANGED <<viewHeight, headerState, scrollPadY, calendarIsReady,
                      calendarScrollable, firstResevationLoad, selectedDay, topDay,
                      knobTracker, scrollTimeout, readyTimeouts, isMounted, lifecycle,
                      props, markings>>]_vars

\* the timer fired after the component was unmounted, with loadItemsForMonth
\* supplied
C15_Witness ==
  /\ event.op = "scrollTimeout"
  /\ ~event.isMounted
  /\ lifecycle = "unmounted"
  /\ props.loadItemsForMonth
  /\ now >= 200
  /\ calls = <<>>

(***************************************************************************)
(* C16                                                                     *)
(***************************************************************************)
\* C16: the month-based item-load debounce is cancel-and-restart: at any time
\* at most one debounce timer is pending; a qualifying visible-months event
\* leaves exactly the timer it arms, due 200 ms later for the first month of
\* its list, whatever was pending before; and the timer that fires is due,
\* leaves none pending, and makes the one loadItemsForMonth call, with that
\* month.  So a run of qualifying events each less than 200 ms after the
\* previous one results in exactly one call, 200 ms after the last event and
\* with the first month of the last event's list.
C16_CancelAndRestart ==
  /\ [](Cardinality(timers) <= 1)
  /\ [][event'.op = "onVisibleMonthsChange" /\ IsDefined(props.items)
          /\ ~firstResevationLoad =>
            \E t \in timers' :
              /\ timers' = {t}
              /\ t.month = event'.months[1]
              /\ t.due = now + 200]_vars
  /\ [][event'.op = "scrollTimeout" =>
          /\ timers = {event'.timer}
          /\ timers' = {}
          /\ now >= event'.timer.due
          /\ isMounted /\ props.loadItemsForMonth =>
               calls' = <<Call("loadItemsForMonth", event'.timer.month)>>]_vars

\* the months from May 2024 on became visible, then 100 ms after time 0 the
\* months from June 2024 on: at 300 ms the one timer left fires and requests
\* the items of June 2024
C16_Witness ==
  /\ event.op = "scrollTimeout"
  /\ now = 300
  /\ event.timer.due = 300
  /\ timers = {}
  /\ calls = <<Call("loadItemsForMonth",
                    [year |-> 2024, month |-> 6, day |-> 1, dateString |-> Key0601])>>

(***************************************************************************)
(* C17                                                                     *)
(***************************************************************************)
\* C17, as claimed: if the component receives props with an item map while a
\* month-load debounce timer is pending, the pending request is cancelled:
\* no timer is left that could result in a loadItemsForMonth call.  (The
\* code's componentWillReceiveProps leaves the timer pending, and it fires.)
C17_AsClaimed ==
  [][event'.op = "componentWillReceiveProps" /\ IsDefined(props'.items) =>
       timers' = {}]_vars

(***************************************************************************)
(* C18                                                                     *)
(***************************************************************************)
\* C18, as claimed: readiness is two-phase: calendarIsReady is false from
\* construction on, it becomes true only in the deferred tick that follows
\* the scroll pad's layout event, and once true it never becomes false again.
\* (The code's constructor sets calendarIsReady to true.)
C18_AsClaimed ==
  /\ [](lifecycle = "constructed" => ~calendarIsReady)
  /\ [][~calendarIsReady /\ calendarIsReady' => event'.op = "readyTimeout"]_vars
  /\ [][calendarIsReady => calendarIsReady']_vars

(***************************************************************************)
(* C19                                                                     *)
(***************************************************************************)
\* C19, as claimed: on the scroll pad's layout event the scroll pad is
\* positioned, without animation, at the fully collapsed position
\* initialScrollPadPosition() = max(0, viewportHeight - headerHeight), and
\* scrollPadY equals that value afterward.  (The code positions it at 0.)
C19_AsClaimed ==
  event.op = "onScrollPadLayout" =>
    /\ scrollPadY = MaxScrollY(viewHeight)
    /\ Made("scrollPad.scrollTo",
            [x |-> 0, y |-> MaxScrollY(viewHeight), animated |-> FALSE])

(***************************************************************************)
(* C20                                                                     *)
(***************************************************************************)
\* the projection-based target for release position y, speed v = num / den
\* per ms and maxScrollY m
C20_Target(y, v, m) == IF 2 * y * v.den + 2 * 250 * v.num > m * v.den THEN m ELSE 0

\* the calls cs hold the call fn(arg); the number of calls of fn in cs
C20_Made(cs, fn, arg) == \E i \in 1..Len(cs) : cs[i].fn = fn /\ cs[i].arg = arg
C20_Count(cs, fn) == Cardinality({i \in 1..Len(cs) : cs[i].fn = fn})

\* C20: the touch-end work inside drag-end is idempotent.  A touch-end
\* delivered after drag-start changes the header state to 'idle' and nothing
\* else, and issues no snap and no notification; and a drag-end, whether the
\* header state is still 'dragged' or already 'idle', ends with the header
\* state 'idle', scrollPadY and calendarScrollable determined by the release
\* position and speed alone, the projection-based snap as the only snap, and
\* onCalendarToggled(true) exactly when the target is 0.  So touch-start,
\* drag-start, touch-end, drag-end ends as touch-start, drag-start, drag-end.
C20_TouchEndInsideDragEnd ==
  /\ [][event'.op = "onTouchEnd" /\ headerState = "dragged" =>
          /\ headerState' = "idle"
          /\ UNCHANGED <<scrollPadY, calendarScrollable, knobTracker, dragging,
                         viewHeight, selectedDay, topDay, now>>
          /\ C20_Count(calls', "scrollPad.scrollTo") = 0
          /\ C20_Count(calls', "onCalendarToggled") = 0]_vars
  /\ [][event'.op = "onSnapAfterDrag" /\ headerState \in {"dragged", "idle"} =>
          LET target == C20_Target(event'.currentY, event'.speed, MaxScrollY(viewHeight))
          IN  /\ headerState' = "idle"
              /\ scrollPadY' = target
              /\ calendarScrollable' = (target = 0 \/ calendarScrollable)
              /\ C20_Count(calls', "scrollPad.scrollTo") = 1
              /\ C20_Made(calls', "scrollPad.scrollTo",
                          [x |-> 0, y |-> target, animated |-> TRUE])
              /\ C20_Count(calls', "onCalendarToggled")
                   = (IF target = 0 /\ props.onCalendarToggled THEN 1 ELSE 0)
              /\ ~C20_Made(calls', "onCalendarToggled", FALSE)]_vars

\* viewport 800: the touch-end came before the drag-end, which then released
\* at 300 moving at +2.0 per ms with the calendar's scrolling disabled: the
\* one snap goes to 662 and the calendar's scrolling stays disabled
C20_Witness ==
  /\ event.op = "onSnapAfterDrag"
  /\ event.headerState = "idle"
  /\ viewHeight = 800
  /\ event.currentY = 300
  /\ event.speed.num = 2 * event.speed.den
  /\ ~event.calendarScrollable
  /\ scrollPadY = 662
  /\ ~calendarScrollable
  /\ headerState = "idle"
  /\ CallCount("scrollPad.scrollTo") = 1

(***************************************************************************)
(* C21                                                                     *)
(***************************************************************************)
\* the positions of the onCalendarToggled notifications among the calls cs
C21_Notifications(cs) == {i \in 1..Len(cs) : cs[i].fn = "onCalendarToggled"}

\* the value the last of the notifications among cs passed
C21_LastNotified(cs) ==
  cs[CHOOSE i \in C21_Notifications(cs) : \A j \in C21_Notifications(cs) : j <= i].arg

\* C21: with an onCalendarToggled callback supplied, calendarScrollable is
\* written only together with a notification of the same value: a handler
\* that makes no notification leaves calendarScrollable as it was, and a
\* handler that notifies leaves calendarScrollable equal to the value it
\* passed last.  So once a notification has occurred, the value most recently
\* passed to onCalendarToggled equals the current calendarScrollable.
C21_NotifiedWithEveryWrite ==
  [][props.onCalendarToggled /\ props'.onCalendarToggled =>
       IF C21_Notifications(calls') = {}
       THEN calendarScrollable' = calendarScrollable
       ELSE calendarScrollable' = C21_LastNotified(calls')]_vars

\* a day was chosen (notified false) and the knob is then tapped: the touch-end
\* enables the calendar's scrolling and notifies true
C21_Witness ==
  /\ event.op = "onTouchEnd"
  /\ event.headerState = "touched"
  /\ ~event.calendarScrollable
  /\ calendarScrollable
  /\ props.onCalendarToggled
  /\ C21_Notifications(calls) # {}
  /\ C21_LastNotified(calls) = TRUE

(***************************************************************************)
(* C22                                                                     *)
(***************************************************************************)
\* C22: a tap on the knob (touch-start, then touch-end, no drag) toggles the
\* header between its two endpoints: touch-start leaves scrollPadY and the
\* viewport as they were, and with maxY > 0 the touch-end that follows leaves
\* scrollPadY = maxY when it was 0 and scrollPadY = 0 when it was maxY, the
\* viewport unchanged; so two consecutive taps restore the original
\* scrollPadY.
C22_TapToggles ==
  /\ [][event'.op = "onTouchStart" => UNCHANGED <<scrollPadY, viewHeight>>]_vars
  /\ [][/\ event'.op = "onTouchEnd"
        /\ headerState = "touched"
        /\ MaxScrollY(viewHeight) > 0
        /\ scrollPadY \in {0, MaxScrollY(viewHeight)}
        => /\ scrollPadY' = MaxScrollY(viewHeight) - scrollPadY
           /\ viewHeight' = viewHeight]_vars

\* viewport 800: a tap at the collapsed endpoint 662 leaves scrollPadY = 0
C22_Witness ==
  /\ TouchEndedWhile("touched")
  /\ viewHeight = 800
  /\ event.currentY = 662
  /\ scrollPadY = 0

====
